---- MODULE Spec2Model ----
(***************************************************************************)
(* bszet-mind: the substitution-plan crawler (Davinci::update, fetch), the *)
(* snapshot store behind tokio's RwLock, and the application of the stored *)
(* rows to the base timetable (Davinci::get_applied_timetable).            *)
(***************************************************************************)
EXTENDS Integers, Sequences, FiniteSets, TLC

VARIABLES
  clock,         \* OffsetDateTime::now_utc(), in ticks
  links,         \* the site's pagination: address -> address of "next", NoUrl if none
  data,          \* Davinci.data: RwLock<Option<Data>>, the stored value
  writer,        \* the caller holding the write guard, NoOne if none
  waiting,       \* callers queued in self.data.write().await
  readers,       \* readers holding a read guard
  callers,       \* the tasks that call update()
  pc,            \* position of each update() call
  start_url,     \* update(): let mut start_url
  rows,          \* update(): let mut rows
  html_rows,     \* update(): let mut html_rows (the date of each entry)
  visited_urls,  \* update(): let mut visited_urls
  logged,        \* info!("Crawled {}, last modified {}") of the running crawl
  response,      \* fetch(): what is wrong with the last response, "none" if nothing
  now,           \* update(): let now
  result,        \* what the last update() call of each caller ended with
  rpc,           \* position of each reader
  view,          \* what a reader has read through its guard
  calendar,      \* get_iteration: date -> iteration, NoIteration if none
  base,          \* static IGD21: the lessons of each weekday
  apc,           \* position of the get_applied_timetable() call
  date,          \* get_applied_timetable(): the date asked for
  day,           \* get_applied_timetable(): let mut day
  relevant_rows, \* get_applied_timetable(): let mut relevant_rows
  pending,       \* the rows that the iteration over data.rows has yet to yield
  calls,         \* the calls of Change::apply so far: the row and the answer
  outcomes,      \* the values returned for each date so far
  in_body,       \* fetch(): the rows of the table body that is parsed
  in_acc,        \* fetch(): rows: &mut Vec<Row> as the earlier pages left it
  parse_out,     \* fetch(): rows after the loop over the body, or how it ended
  hour,          \* convert_lesson(): lesson
  block,         \* convert_lesson(): what the call gave
  utc,           \* OffsetDateTime::now_utc() as read by the function at hand
  sleep,         \* await_next_execution(): the duration it sleeps
  target,        \* send_notifications(): now.date() that goes to the timetable
  ipc,           \* position of the render_images() call, or how it ended
  todo,          \* render_images(): the dates that the loop has yet to render
  images,        \* render_images(): let mut images, by its length
  plan           \* the renderer's request for the page of a date

crawlVars == <<pc, start_url, rows, html_rows, visited_urls, logged, response,
              now, result>>
lockVars == <<writer, waiting, readers>>
readerVars == <<rpc, view>>
applyVars == <<calendar, base, apc, date, day, relevant_rows, pending, calls,
               outcomes>>
timeVars == <<utc, sleep, target>>
renderVars == <<ipc, todo, images, plan>>
pureVars == <<in_body, in_acc, parse_out, hour, block, utc, sleep, target>>
vars == <<clock, links, data, writer, waiting, readers, callers, pc, start_url,
          rows, html_rows, visited_urls, logged, response, now, result, rpc, view,
          calendar, base, apc, date, day, relevant_rows, pending, calls,
          outcomes, in_body, in_acc, parse_out, hour, block, utc, sleep,
          target, ipc, todo, images, plan>>

----------------------------------------------------------------------------
(* Bounds of the model *)

\* the crawl loop is cut off after this many page fetches
MaxVisited == 3
\* the clock stops ticking here
MaxTime == 1

----------------------------------------------------------------------------
(* Values *)

NoUrl == 0
NoOne == "none"
None == [some |-> FALSE]
Some(v) == [some |-> TRUE, v |-> v]

Urls == {1, 2}
Entrypoint == 1
Updaters == {"u1", "u2"}
Readers == {"r1"}
Applier == "a1"
NoIteration == 0

\* dates are days of January 2023; the 1st is a Sunday
DebugDate == 27
Weekday(d) ==
  CASE d % 7 = 1 -> "Sunday"
    [] d % 7 = 2 -> "Monday"
    [] d % 7 = 3 -> "Tuesday"
    [] d % 7 = 4 -> "Wednesday"
    [] d % 7 = 5 -> "Thursday"
    [] d % 7 = 6 -> "Friday"
    [] OTHER -> "Saturday"

Last(s) == s[Len(s)]
ToSet(s) == {s[i] : i \in 1..Len(s)}
RECURSIVE SetMax(_)
SetMax(S) ==
  LET x == CHOOSE y \in S : TRUE
  IN IF S = {x} THEN x
     ELSE LET m == SetMax(S \ {x}) IN IF x > m THEN x ELSE m

----------------------------------------------------------------------------
(* Subjects and changes *)

\* a Subject is a name wrapped in `cancel` layers of Subject::Cancel
Subject(name) == [name |-> name, cancel |-> 0]
Cancel(subject) == [name |-> subject.name, cancel |-> subject.cancel + 1]

SubjectFrom(value) ==
  CASE value = "DEU" -> Subject("GermanBasic")
    [] value = "LK-DEU" -> Subject("GermanAdvanced")
    [] value = "MA" -> Subject("MathBasic")
    [] value = "LK-MA" -> Subject("MathAdvanced")
    [] value = "ENG" -> Subject("EnglishBasic")
    [] value = "LK-ENG" -> Subject("EnglishAdvanced")
    [] value \in {"BK", "BK1", "BK2"} -> Subject("Art")
    [] value = "GGK" -> Subject("History")
    [] value = "F-B" -> Subject("French")
    [] value = "ETH" -> Subject("Ethics")
    [] value = "R-B" -> Subject("Russian")
    [] value = "CH" -> Subject("Chemistry")
    [] value = "PHY" -> Subject("Physics")
    [] value = "SP" -> Subject("PhysicalEducation")
    [] value = "LIT" -> Subject("Literature")
    [] value = "LF 6+7+9" -> Subject("Lf6_7_9")
    [] value \in {"LF 9+12", "IS-GP"} -> Subject("Lf9_12")
    [] value = "LF8D_I1" -> Subject("Lf8__1")
    [] value = "LF8D_I2" -> Subject("Lf8__2")
    [] value = "LF10D_I1" -> Subject("Lf10__1")
    [] value = "LF10D_I2" -> Subject("Lf10__2")
    [] value \in {"LF11D", "LF11D_I"} -> Subject("Lf11")
    [] value = "LF11D_I1" -> Subject("Lf11__1")
    [] value = "LF11D_I2" -> Subject("Lf11__2")
    [] value = "LF13D_I1" -> Subject("Lf13__1")
    [] value = "LF13D_I2" -> Subject("Lf13__2")
    [] value = "_fae.verb." -> Subject("FaeVerb")
    [] value = "" -> Subject("None")
    [] OTHER -> Subject(value)

\* the kinds of change a row can carry
ChangeKinds == {"cancel", "room", "swap", "notice"}

\* Change::new(lesson, kind, old, new, place, notice): fails on a kind it does
\* not know
ChangeNew(lesson, code, old, new, place, notice) ==
  IF code \in ChangeKinds
  THEN Some([kind |-> code, lesson |-> lesson, old |-> old, new |-> new,
             place |-> place, notice |-> notice])
  ELSE None

\* Convert raw lesson to block lesson (u8 arithmetic)
convert_lesson(lesson) == ((lesson + (lesson % 2)) % 256) \div 2

\* the greatest u8
MaxU8 == 255
\* what a call of convert_lesson gives: lesson + lesson % 2 beyond u8 panics
\* in a build with overflow checks and wraps in one without
ConvertOutcomes(lesson) ==
  IF lesson + (lesson % 2) > MaxU8
  THEN {[panic |-> TRUE, v |-> 0], [panic |-> FALSE, v |-> convert_lesson(lesson)]}
  ELSE {[panic |-> FALSE, v |-> convert_lesson(lesson)]}

----------------------------------------------------------------------------
(* Pages *)

\* a table row as the seven cleaned columns; class and slot are <<>> when
\* the column is blank, the slot label "4." is <<4>>
RawRow(class, slot, old, new, room, code, notice) ==
  [cols |-> 7, class |-> class, slot |-> slot, old |-> old, new |-> new,
   room |-> room, code |-> code, notice |-> notice]

RawCancel == RawRow(<<"IGD21">>, <<4>>, "CH", "", "", "cancel", "")
RawRepeat == RawRow(<<>>, <<>>, "CH", "", "", "cancel", "")
RawRoom == RawRow(<<"IGD 21", "X">>, <<3>>, "CH", "CH", "B1", "room", "")
RawOther == RawRow(<<"X">>, <<1>>, "DEU", "", "", "cancel", "")
RawPhysics == RawRow(<<"IGD21">>, <<2>>, "PHY", "", "", "cancel", "")
\* a tr with six td
RawShort == [RawCancel EXCEPT !.cols = 6]

\* the table bodies of the pages: no row, a row and its repetition with
\* blank class and slot, another row, a row of six columns
Bodies == {<<>>, <<RawCancel, RawRepeat>>, <<RawRoom>>, <<RawShort>>}
CrawlDates == {27, 30}
Faults == {"status", "no_last_modified", "no_date", "no_tbody"}

\* what is wrong with a table body: a row without seven columns, or a first
\* row with a blank class or slot column
Structural == {"columns", "first_row_blank"}
PageProblem(page) ==
  IF page.fault # "none" THEN page.fault
  ELSE IF \E i \in 1..Len(page.body) : page.body[i].cols # 7 THEN "columns"
  ELSE IF page.body # <<>>
          /\ (page.body[1].class = <<>> \/ page.body[1].slot = <<>>)
  THEN "first_row_blank"
  ELSE "none"

\* the pagination of the site: every page has at most one "next" control;
\* pages that the crawl cannot reach from the entrypoint are left out
Sites ==
  {l \in [Urls -> Urls \cup {NoUrl}] :
     \A p \in Urls \ {Entrypoint} : l[Entrypoint] # p => l[p] = NoUrl}

\* what the server can answer at time t
Pages(t) ==
  [fault : {"none"}, last_modified : 0..t, date : CrawlDates,
   head_trs : {1}, body : Bodies]
  \cup [fault : Faults, last_modified : {t}, date : {DebugDate},
        head_trs : {1}, body : {<<>>}]


----------------------------------------------------------------------------
(* Davinci::fetch *)

\* a loop that takes a blank column from the first row of the crawl
RECURSIVE ParseRows_InheritsFirst(_, _, _)
ParseRows_InheritsFirst(d, body, acc) ==
  IF body = <<>> THEN [kind |-> "ok", rows |-> acc]
  ELSE
    LET columns == Head(body)
        class == IF columns.class = <<>> THEN None ELSE Some(columns.class)
        lesson == IF columns.slot = <<>> THEN None
                  ELSE Some(convert_lesson(columns.slot[1]))
    IN IF columns.cols # 7 THEN [kind |-> "panic", rows |-> acc]
       ELSE IF acc = <<>> /\ (~class.some \/ ~lesson.some)
       THEN [kind |-> "panic", rows |-> acc]
       ELSE
         LET change ==
               ChangeNew(IF lesson.some THEN lesson.v ELSE acc[1].change.lesson,
                         columns.code, columns.old, columns.new, columns.room,
                         columns.notice)
             row == [date |-> d,
                     class |-> IF class.some THEN class.v ELSE acc[1].class,
                     change |-> change.v]
         IN IF ~change.some THEN [kind |-> "err", rows |-> acc]
            ELSE ParseRows_InheritsFirst(d, Tail(body), Append(acc, row))

\* the loop over the rows of the table body: the rows vector after the page,
\* or the way the loop ended early
RECURSIVE ParseRows(_, _, _)
ParseRows(d, body, acc) ==
  IF body = <<>> THEN [kind |-> "ok", rows |-> acc]
  ELSE
    LET columns == Head(body)
        class == IF columns.class = <<>> THEN None ELSE Some(columns.class)
        lesson == IF columns.slot = <<>> THEN None
                  ELSE Some(convert_lesson(columns.slot[1]))
    IN IF columns.cols # 7 THEN [kind |-> "panic", rows |-> acc]
       ELSE IF acc = <<>> /\ (~class.some \/ ~lesson.some)
       THEN [kind |-> "panic", rows |-> acc]
       ELSE
         LET change ==
               ChangeNew(IF lesson.some THEN lesson.v ELSE Last(acc).change.lesson,
                         columns.code, columns.old, columns.new, columns.room,
                         columns.notice)
             row == [date |-> d,
                     class |-> IF class.some THEN class.v ELSE Last(acc).class,
                     change |-> change.v]
         IN IF ~change.some THEN [kind |-> "err", rows |-> acc]
            ELSE ParseRows(d, Tail(body), Append(acc, row))

\* one entry of html_rows for every tr of the document
HtmlRowsOf(page) == [i \in 1..(page.head_trs + Len(page.body)) |-> page.date]

\* fetch() that takes a faulty response for the last page of the plan
FetchOutcome_FaultEndsCrawl(url, page, next, acc) ==
  IF page.fault \in Faults THEN [kind |-> "ok", rows |-> acc, next |-> NoUrl]
  ELSE LET parsed == ParseRows(page.date, page.body, acc)
       IN [kind |-> parsed.kind, rows |-> parsed.rows,
           next |-> IF next # NoUrl /\ next # url THEN next ELSE NoUrl]

\* fetch() that follows the pagination control even when it names the page
\* just fetched
FetchOutcome_FollowsSelf(url, page, next, acc) ==
  IF page.fault \in Faults THEN [kind |-> "err", rows |-> acc, next |-> NoUrl]
  ELSE LET parsed == ParseRows(page.date, page.body, acc)
       IN [kind |-> parsed.kind, rows |-> parsed.rows, next |-> next]

\* fetch() that starts every page with an empty rows vector
FetchOutcome_ForgetsRows(url, page, next, acc) ==
  IF page.fault \in Faults THEN [kind |-> "err", rows |-> acc, next |-> NoUrl]
  ELSE LET parsed == ParseRows(page.date, page.body, <<>>)
       IN [kind |-> parsed.kind, rows |-> parsed.rows,
           next |-> IF next # NoUrl /\ next # url THEN next ELSE NoUrl]

\* the outcome of fetch(url, &mut rows, &mut html_rows) when the server
\* answers with page and the page's pagination control points to next
FetchOutcome(url, page, next, acc) ==
  IF page.fault \in Faults THEN [kind |-> "err", rows |-> acc, next |-> NoUrl]
  ELSE LET parsed == ParseRows(page.date, page.body, acc)
       IN [kind |-> parsed.kind, rows |-> parsed.rows,
           next |-> IF next # NoUrl /\ next # url THEN next ELSE NoUrl]


----------------------------------------------------------------------------
(* The base timetable and Change::apply *)

Lesson(lesson, iteration, subject, place) ==
  [lesson |-> lesson, iteration |-> iteration, subject |-> Subject(subject),
   place |-> Some(place), notice |-> None]

IGD21 ==
  [Monday |-> <<
     Lesson(1, None, "GermanBasic", "B6"),
     Lesson(2, None, "Chemistry", "B9"),
     Lesson(3, Some(1), "EnglishAdvanced", "A102"),
     Lesson(3, Some(1), "MathAdvanced", "B11"),
     Lesson(3, Some(2), "Lf11", "B5"),
     Lesson(4, Some(1), "History", "B4"),
     Lesson(4, Some(2), "Art", "A06"),
     Lesson(4, Some(2), "Literature", "B4")>>,
   Tuesday |-> <<
     Lesson(1, None, "MathBasic", "B05"),
     Lesson(1, None, "EnglishBasic", "B104"),
     Lesson(2, None, "GermanBasic", "B6"),
     Lesson(3, None, "Lf13__1", "A103"),
     Lesson(3, None, "Lf11__2", "B3"),
     Lesson(4, None, "EnglishAdvanced", "A102"),
     Lesson(4, None, "MathAdvanced", "B11")>>,
   Wednesday |-> <<
     Lesson(1, None, "EnglishAdvanced", "B6"),
     Lesson(1, None, "MathAdvanced", "B11"),
     Lesson(2, None, "EnglishBasic", "B105"),
     Lesson(2, None, "MathBasic", "B106"),
     Lesson(3, None, "Ethics", "B4"),
     Lesson(4, None, "French", "B111"),
     Lesson(4, None, "Russian", "B4")>>,
   Thursday |-> <<
     Lesson(1, None, "History", "B4"),
     Lesson(2, None, "Lf9_12", "B8"),
     Lesson(3, None, "PhysicalEducation", "117.GS Neu"),
     Lesson(4, None, "Lf10__1", "B405"),
     Lesson(4, None, "Lf13__2", "A103")>>,
   Friday |-> <<
     Lesson(1, None, "Physics", "B112"),
     Lesson(2, None, "French", "A102"),
     Lesson(2, None, "Russian", "B4"),
     Lesson(3, None, "Lf13__1", "A103"),
     Lesson(3, None, "Lf10__2", "B405"),
     Lesson(4, None, "Lf11__1", "B5"),
     Lesson(4, None, "Lf13__2", "A103")>>]

\* a day that keeps the lessons of every iteration
FilterDay_KeepsAll(lessons, iteration) == lessons
\* the lessons of the weekday that take place in the iteration
FilterDay(lessons, iteration) ==
  SelectSeq(lessons, LAMBDA l : ~l.iteration.some \/ l.iteration.v = iteration)

\* Change::apply(&mut day): the first lesson of the change's block whose
\* subject is the change's old value is changed as the kind says; without
\* such a lesson nothing is changed and the answer is false
Apply(change, lessons) ==
  LET matches == {i \in 1..Len(lessons) :
                    /\ lessons[i].lesson = change.lesson
                    /\ lessons[i].subject = SubjectFrom(change.old)}
  IN IF matches = {} THEN [applied |-> FALSE, day |-> lessons]
     ELSE
       LET i == CHOOSE m \in matches : \A n \in matches : m <= n
           l == lessons[i]
           changed ==
             CASE change.kind = "cancel" -> [l EXCEPT !.subject = Cancel(@)]
               [] change.kind = "room" -> [l EXCEPT !.place = Some(change.place)]
               [] change.kind = "swap" ->
                    [l EXCEPT !.subject = SubjectFrom(change.new),
                              !.place = Some(change.place)]
               [] OTHER -> [l EXCEPT !.notice = Some(change.notice)]
       IN [applied |-> TRUE, day |-> [lessons EXCEPT ![i] = changed]]

\* the dates for which the timetable is asked: a Friday, a Saturday, a Monday
ApplyDates == {27, 28, 30}

\* the rows a crawl can have stored: those of one page per date
ApplyRows ==
  ToSet(ParseRows(30, <<RawCancel, RawRoom, RawOther, RawPhysics>>, <<>>).rows)
  \cup ToSet(ParseRows(27, <<RawCancel, RawPhysics>>, <<>>).rows)

----------------------------------------------------------------------------
(* The store and its lock *)

Snapshot(last_checked, last_modified, set, urls) ==
  Some([last_checked |-> last_checked, last_modified |-> last_modified,
        rows |-> set, visited_urls |-> urls])

\* tokio's RwLock is write-preferring: a queued writer holds back new readers
CanRead == writer = NoOne /\ waiting = {}
\* a write lock that is granted while read guards are out
CanWrite_IgnoresReaders == writer = NoOne
\* a write lock that is granted while another write guard is out
CanWrite_IgnoresWriter == readers = {}
CanWrite == writer = NoOne /\ readers = {}

\* nothing has been handed to the parser or to convert_lesson()
\* neither await_next_execution() nor send_notifications() has read the time
Midnight == [day |-> 22, hour |-> 0, minute |-> 0, second |-> 0]
TimeIdle ==
  /\ utc = Midnight
  /\ sleep = None
  /\ target = None

PureIdle ==
  /\ TimeIdle
  /\ in_body = <<>>
  /\ in_acc = <<>>
  /\ parse_out = None
  /\ hour = 0
  /\ block = None

\* no call of render_images() has been made
RenderIdle ==
  /\ ipc = "idle"
  /\ todo = {}
  /\ images = 0
  /\ plan = "idle"

\* no call of get_applied_timetable() has been made
ApplyIdle ==
  /\ base = IGD21
  /\ apc = "idle"
  /\ date = DebugDate
  /\ day = <<>>
  /\ relevant_rows = <<>>
  /\ pending = {}
  /\ calls = <<>>
  /\ outcomes = [d \in ApplyDates |-> {}]

Init ==
  /\ clock = 0
  /\ links \in Sites
  /\ data = None
  /\ writer = NoOne
  /\ waiting = {}
  /\ readers = {}
  /\ callers = {"u1"}
  /\ pc = [u \in Updaters |-> "idle"]
  /\ start_url = [u \in Updaters |-> Entrypoint]
  /\ rows = [u \in Updaters |-> <<>>]
  /\ html_rows = [u \in Updaters |-> <<>>]
  /\ visited_urls = [u \in Updaters |-> <<>>]
  /\ logged = [u \in Updaters |-> <<>>]
  /\ response = [u \in Updaters |-> "none"]
  /\ now = [u \in Updaters |-> 0]
  /\ result = [u \in Updaters |-> "none"]
  /\ rpc = [r \in Readers |-> "idle"]
  /\ view = [r \in Readers |-> [rows |-> None, meta |-> None]]
  /\ PureIdle
  /\ calendar = [d \in ApplyDates |-> NoIteration]
  /\ ApplyIdle
  /\ RenderIdle

----------------------------------------------------------------------------
(* Davinci::update *)

\* update() that takes the write guard before it starts to crawl
UpdateCall_LocksFirst(u) ==
  /\ u \in callers
  /\ pc[u] \in {"idle", "sleep"}
  /\ CanWrite
  /\ writer' = u
  /\ pc' = [pc EXCEPT ![u] = "crawl"]
  /\ start_url' = [start_url EXCEPT ![u] = Entrypoint]
  /\ rows' = [rows EXCEPT ![u] = <<>>]
  /\ html_rows' = [html_rows EXCEPT ![u] = <<>>]
  /\ visited_urls' = [visited_urls EXCEPT ![u] = <<>>]
  /\ logged' = [logged EXCEPT ![u] = <<>>]
  /\ response' = [response EXCEPT ![u] = "none"]
  /\ result' = [result EXCEPT ![u] = "none"]
  /\ UNCHANGED <<clock, links, data, waiting, readers, callers, pureVars, now,
                 readerVars, applyVars, renderVars>>

\* iteration() is called, at first or when await_next_execution() is over,
\* and calls update(): the locals before the loop
UpdateCall(u) ==
  /\ u \in callers
  /\ pc[u] \in {"idle", "sleep"}
  /\ pc' = [pc EXCEPT ![u] = "crawl"]
  /\ start_url' = [start_url EXCEPT ![u] = Entrypoint]
  /\ rows' = [rows EXCEPT ![u] = <<>>]
  /\ html_rows' = [html_rows EXCEPT ![u] = <<>>]
  /\ visited_urls' = [visited_urls EXCEPT ![u] = <<>>]
  /\ logged' = [logged EXCEPT ![u] = <<>>]
  /\ response' = [response EXCEPT ![u] = "none"]
  /\ result' = [result EXCEPT ![u] = "none"]
  /\ UNCHANGED <<clock, links, data, lockVars, callers, pureVars, now,
                 readerVars, applyVars, renderVars>>

\* one turn of the crawl loop: push the address, fetch and parse the page
Fetch(u) ==
  /\ pc[u] = "crawl"
  /\ Len(visited_urls[u]) < MaxVisited
  /\ \E page \in Pages(clock) :
       LET url == start_url[u]
           out == FetchOutcome(url, page, links[url], rows[u])
       IN /\ visited_urls' = [visited_urls EXCEPT ![u] = Append(@, url)]
          /\ response' = [response EXCEPT ![u] = PageProblem(page)]
          /\ logged' = [logged EXCEPT ![u] =
               IF page.fault \in {"status", "no_last_modified"} THEN @
               ELSE Append(@, [url |-> url, last_modified |-> page.last_modified])]
          /\ html_rows' = [html_rows EXCEPT ![u] =
               IF page.fault \in {"none", "no_tbody"} THEN @ \o HtmlRowsOf(page)
               ELSE @]
          /\ rows' = [rows EXCEPT ![u] = out.rows]
          /\ CASE out.kind = "err" ->
                    /\ pc' = [pc EXCEPT ![u] = "returned"]
                    /\ result' = [result EXCEPT ![u] = "err"]
                    /\ UNCHANGED start_url
               [] out.kind = "panic" ->
                    /\ pc' = [pc EXCEPT ![u] = "panicked"]
                    /\ result' = [result EXCEPT ![u] = "panic"]
                    /\ UNCHANGED start_url
               [] OTHER ->
                    /\ pc' = [pc EXCEPT ![u] =
                         IF out.next = NoUrl THEN "render" ELSE "crawl"]
                    /\ start_url' = [start_url EXCEPT ![u] =
                         IF out.next = NoUrl THEN @ ELSE out.next]
                    /\ UNCHANGED result
  /\ UNCHANGED <<clock, links, data, lockVars, callers, pureVars, now,
                 readerVars, applyVars, renderVars>>

\* the page of DebugDate is rendered from html_rows2 and printed; then now is
\* read and the write guard requested
Render(u) ==
  /\ pc[u] = "render"
  /\ IF DebugDate \notin ToSet(html_rows[u])
     THEN /\ pc' = [pc EXCEPT ![u] = "panicked"]
          /\ result' = [result EXCEPT ![u] = "panic"]
          /\ UNCHANGED <<now, lockVars>>
     ELSE /\ now' = [now EXCEPT ![u] = clock]
          /\ UNCHANGED result
          /\ IF CanWrite
             THEN /\ writer' = u
                  /\ pc' = [pc EXCEPT ![u] = "commit"]
                  /\ UNCHANGED <<waiting, readers>>
             ELSE /\ waiting' = waiting \cup {u}
                  /\ pc' = [pc EXCEPT ![u] = "waiting"]
                  /\ UNCHANGED <<writer, readers>>
  /\ UNCHANGED <<clock, links, data, callers, pureVars, start_url, rows,
                 html_rows, visited_urls, logged, response, readerVars,
                 applyVars, renderVars>>

\* self.data.write().await completes
WriteGranted(u) ==
  /\ pc[u] = "waiting"
  /\ CanWrite
  /\ writer' = u
  /\ waiting' = waiting \ {u}
  /\ pc' = [pc EXCEPT ![u] = "commit"]
  /\ UNCHANGED <<clock, links, data, readers, callers, pureVars, start_url,
                 rows, html_rows, visited_urls, logged, response, now, result,
                 readerVars, applyVars, renderVars>>

\* a comparison that counts the rows as well: a Vec against a Vec
Commit_ComparesVec(u) ==
  /\ pc[u] = "commit"
  /\ LET hash == ToSet(rows[u])
     IN IF /\ data.some
           /\ hash = data.v.rows
           /\ Len(rows[u]) = Cardinality(data.v.rows)
        THEN /\ data' = Some([data.v EXCEPT !.last_checked = now[u]])
             /\ result' = [result EXCEPT ![u] = "false"]
        ELSE /\ data' = Snapshot(now[u], now[u], hash, visited_urls[u])
             /\ result' = [result EXCEPT ![u] = "true"]
  /\ writer' = NoOne
  /\ pc' = [pc EXCEPT ![u] = "returned"]
  /\ UNCHANGED <<clock, links, waiting, readers, callers, pureVars, start_url,
                 rows, html_rows, visited_urls, logged, response, now,
                 readerVars, applyVars, renderVars>>

\* under the write guard: build the set, compare, replace; the guard drops
\* when update() returns
Commit(u) ==
  /\ pc[u] = "commit"
  /\ LET hash == ToSet(rows[u])
     IN IF data.some /\ hash = data.v.rows
        THEN /\ data' = Some([data.v EXCEPT !.last_checked = now[u]])
             /\ result' = [result EXCEPT ![u] = "false"]
        ELSE /\ data' = Snapshot(now[u], now[u], hash, visited_urls[u])
             /\ result' = [result EXCEPT ![u] = "true"]
  /\ writer' = NoOne
  /\ pc' = [pc EXCEPT ![u] = "returned"]
  /\ UNCHANGED <<clock, links, waiting, readers, callers, pureVars, start_url,
                 rows, html_rows, visited_urls, logged, response, now,
                 readerVars, applyVars, renderVars>>

----------------------------------------------------------------------------
(* iteration: what the periodic task does with the result of update() *)

\* OffsetDateTime::now_utc() at each reading of the clock
Instants ==
  <<[hour |-> 14, minute |-> 59], [hour |-> 15, minute |-> 14],
    [hour |-> 15, minute |-> 15], [hour |-> 16, minute |-> 0]>>
NowUtc(t) == Instants[t + 1]

\* await_next_execution() that counts from the last quarter of the hour
AwaitOutcomes_FromLastQuarter(minute, second) ==
  LET now_min_to_last_15 == minute % 15
      now_sec_to_next_15 == now_min_to_last_15 * 60
      now_sec_to_next_15_prec == now_sec_to_next_15 - second
  IN IF now_sec_to_next_15_prec < 0
     THEN {[underflow |-> TRUE, build |-> b, secs |-> 0] : b \in {"panic", "wrap"}}
     ELSE {[underflow |-> FALSE, build |-> "any", secs |-> now_sec_to_next_15_prec]}
\* the seconds that await_next_execution() sleeps; all values are u64, a
\* difference below 0 panics in a build with overflow checks and wraps in
\* one without
AwaitOutcomes(minute, second) ==
  LET now_min_to_last_15 == minute % 15
      now_min_to_next_15 == 15 - now_min_to_last_15
      now_sec_to_next_15 == now_min_to_next_15 * 60
      now_sec_to_next_15_prec == now_sec_to_next_15 - second
  IN IF now_sec_to_next_15_prec < 0
     THEN {[underflow |-> TRUE, build |-> b, secs |-> 0] : b \in {"panic", "wrap"}}
     ELSE {[underflow |-> FALSE, build |-> "any", secs |-> now_sec_to_next_15_prec]}

\* send_notifications() that moves a Saturday by one day
NotifyDate_SaturdayPlusOne(today, at) ==
  LET next == IF at >= 15 THEN today + 1 ELSE today
  IN CASE Weekday(next) = "Saturday" -> next + 1
       [] Weekday(next) = "Sunday" -> next + 1
       [] OTHER -> next
\* the date for which send_notifications() asks the timetable: tomorrow from
\* 15 o'clock on, and the Monday after a Saturday or Sunday
NotifyDate(today, at) ==
  LET next == IF at >= 15 THEN today + 1 ELSE today
  IN CASE Weekday(next) = "Saturday" -> next + 2
       [] Weekday(next) = "Sunday" -> next + 1
       [] OTHER -> next

\* a task that sends the notifications after every update() that came back
Dispatch_AlwaysNotifies(u) ==
  /\ pc[u] = "returned"
  /\ pc' = [pc EXCEPT ![u] = IF result[u] = "err" THEN "sleep" ELSE "notify"]
  /\ start_url' = [start_url EXCEPT ![u] = Entrypoint]
  /\ rows' = [rows EXCEPT ![u] = <<>>]
  /\ html_rows' = [html_rows EXCEPT ![u] = <<>>]
  /\ visited_urls' = [visited_urls EXCEPT ![u] = <<>>]
  /\ logged' = [logged EXCEPT ![u] = <<>>]
  /\ response' = [response EXCEPT ![u] = "none"]
  /\ now' = [now EXCEPT ![u] = 0]
  /\ UNCHANGED <<clock, links, data, lockVars, callers, pureVars, result,
                 readerVars, applyVars, renderVars>>

\* update() has returned and its locals are dropped; the match on its
\* result: send_notifications() is called, or the error or "Nothing changed"
\* is logged and the task waits
Dispatch(u) ==
  /\ pc[u] = "returned"
  /\ pc' = [pc EXCEPT ![u] =
       CASE result[u] = "true" -> "notify"
         [] result[u] = "false" ->
              IF NowUtc(clock).hour = 15 /\ NowUtc(clock).minute <= 14
              THEN "notify" ELSE "sleep"
         [] OTHER -> "sleep"]
  /\ start_url' = [start_url EXCEPT ![u] = Entrypoint]
  /\ rows' = [rows EXCEPT ![u] = <<>>]
  /\ html_rows' = [html_rows EXCEPT ![u] = <<>>]
  /\ visited_urls' = [visited_urls EXCEPT ![u] = <<>>]
  /\ logged' = [logged EXCEPT ![u] = <<>>]
  /\ response' = [response EXCEPT ![u] = "none"]
  /\ now' = [now EXCEPT ![u] = 0]
  /\ UNCHANGED <<clock, links, data, lockVars, callers, pureVars, result,
                 readerVars, applyVars, renderVars>>

\* send_notifications() has come back; its result is logged only
SendNotifications(u) ==
  /\ pc[u] = "notify"
  /\ pc' = [pc EXCEPT ![u] = "sleep"]
  /\ UNCHANGED <<clock, links, data, lockVars, callers, pureVars, start_url,
                 rows, html_rows, visited_urls, logged, response, now, result,
                 readerVars, applyVars, renderVars>>

----------------------------------------------------------------------------
(* Readers: Davinci::data and what the caller reads through the guard *)

ReadLock(r) ==
  /\ rpc[r] = "idle"
  /\ CanRead
  /\ readers' = readers \cup {r}
  /\ rpc' = [rpc EXCEPT ![r] = "locked"]
  /\ view' = [view EXCEPT ![r] = [rows |-> None, meta |-> None]]
  /\ UNCHANGED <<clock, links, data, writer, waiting, callers, pureVars,
                 crawlVars, applyVars, renderVars>>

ReadRows(r) ==
  /\ rpc[r] = "locked"
  /\ view' = [view EXCEPT ![r].rows =
       IF data.some THEN Some(data.v.rows) ELSE None]
  /\ rpc' = [rpc EXCEPT ![r] = "rows"]
  /\ UNCHANGED <<clock, links, data, lockVars, callers, pureVars, crawlVars,
                 applyVars, renderVars>>

ReadMeta(r) ==
  /\ rpc[r] = "rows"
  /\ view' = [view EXCEPT ![r].meta =
       IF data.some
       THEN Some(<<data.v.last_checked, data.v.last_modified, data.v.visited_urls>>)
       ELSE None]
  /\ rpc' = [rpc EXCEPT ![r] = "meta"]
  /\ UNCHANGED <<clock, links, data, lockVars, callers, pureVars, crawlVars,
                 applyVars, renderVars>>

ReadUnlock(r) ==
  /\ rpc[r] = "meta"
  /\ readers' = readers \ {r}
  /\ rpc' = [rpc EXCEPT ![r] = "idle"]
  /\ view' = [view EXCEPT ![r] = [rows |-> None, meta |-> None]]
  /\ UNCHANGED <<clock, links, data, writer, waiting, callers, pureVars,
                 crawlVars, applyVars, renderVars>>

----------------------------------------------------------------------------
(* Davinci::get_applied_timetable *)

\* a filter that knows the tracked class under one of its two names only
Relevant_OneName(row, d) ==
  /\ row.date = d
  /\ "IGD21" \in ToSet(row.class)

\* the row is of the date asked for and of the tracked class
Relevant(row, d) ==
  /\ row.date = d
  /\ ("IGD21" \in ToSet(row.class) \/ "IGD 21" \in ToSet(row.class))

\* the call up to the read of the store: the iteration and the day's lessons
ApplyCall(d) ==
  /\ apc \in {"idle", "returned", "panicked"}
  /\ date' = d
  /\ relevant_rows' = <<>>
  /\ calls' = <<>>
  /\ pending' = {}
  /\ IF calendar[d] = NoIteration \/ Weekday(d) \notin DOMAIN base
     THEN apc' = "panicked" /\ day' = <<>>
     ELSE apc' = "lock" /\ day' = FilterDay(base[Weekday(d)], calendar[d])
  /\ UNCHANGED <<clock, links, data, lockVars, callers, pureVars, crawlVars,
                 readerVars, calendar, base, outcomes, renderVars>>

\* self.data.read().await: the guard lives as long as the loop
ApplyLock ==
  /\ apc = "lock"
  /\ CanRead
  /\ readers' = readers \cup {Applier}
  /\ pending' = IF data.some THEN data.v.rows ELSE {}
  /\ apc' = "loop"
  /\ UNCHANGED <<clock, links, data, writer, waiting, callers, pureVars,
                 crawlVars, readerVars, calendar, base, date, day,
                 relevant_rows, calls, outcomes, renderVars>>

\* a loop that changes the lessons of IGD21 themselves, not a copy of them
ApplyRow_InPlace ==
  /\ apc = "loop"
  /\ \E row \in pending :
       /\ pending' = pending \ {row}
       /\ IF ~Relevant(row, date)
          THEN UNCHANGED <<base, day, relevant_rows, calls>>
          ELSE LET out == Apply(row.change, day)
                   was == ToSet(day) \ ToSet(out.day)
                   is == ToSet(out.day) \ ToSet(day)
               IN /\ calls' = Append(calls, [row |-> row, applied |-> out.applied])
                  /\ day' = out.day
                  /\ base' = [base EXCEPT ![Weekday(date)] =
                       [i \in DOMAIN @ |->
                          IF @[i] \in was THEN CHOOSE l \in is : TRUE ELSE @[i]]]
                  /\ relevant_rows' = IF out.applied THEN relevant_rows
                                      ELSE Append(relevant_rows, row)
  /\ UNCHANGED <<clock, links, data, lockVars, callers, pureVars, crawlVars,
                 readerVars, calendar, apc, date, outcomes, renderVars>>

\* one turn of the loop over data.rows; the set yields its rows in any order
ApplyRow ==
  /\ apc = "loop"
  /\ \E row \in pending :
       /\ pending' = pending \ {row}
       /\ IF ~Relevant(row, date)
          THEN UNCHANGED <<day, relevant_rows, calls>>
          ELSE LET out == Apply(row.change, day)
               IN /\ calls' = Append(calls, [row |-> row, applied |-> out.applied])
                  /\ day' = out.day
                  /\ relevant_rows' = IF out.applied THEN relevant_rows
                                      ELSE Append(relevant_rows, row)
  /\ UNCHANGED <<clock, links, data, lockVars, callers, pureVars, crawlVars,
                 readerVars, calendar, base, apc, date, outcomes, renderVars>>

\* (day, relevant_rows) is returned and the guard dropped
ApplyReturn ==
  /\ apc = "loop"
  /\ pending = {}
  /\ readers' = readers \ {Applier}
  /\ apc' = "returned"
  /\ outcomes' = [outcomes EXCEPT ![date] =
       @ \cup {[day |-> day, relevant_rows |-> relevant_rows]}]
  /\ UNCHANGED <<clock, links, data, writer, waiting, callers, pureVars,
                 crawlVars, readerVars, calendar, base, date, day,
                 relevant_rows, pending, calls, renderVars>>

Tick ==
  /\ clock < MaxTime
  /\ clock' = clock + 1
  /\ UNCHANGED <<links, data, lockVars, callers, pureVars, crawlVars,
                 readerVars, applyVars, renderVars>>

Next ==
  \/ \E u \in Updaters : UpdateCall(u)
  \/ \E u \in Updaters : Fetch(u)
  \/ \E u \in Updaters : Render(u)
  \/ \E u \in Updaters : WriteGranted(u)
  \/ \E u \in Updaters : Commit(u)
  \/ \E u \in Updaters : Dispatch(u)
  \/ \E u \in Updaters : SendNotifications(u)
  \/ \E r \in Readers : ReadLock(r)
  \/ \E r \in Readers : ReadRows(r)
  \/ \E r \in Readers : ReadMeta(r)
  \/ \E r \in Readers : ReadUnlock(r)
  \/ Tick

Spec == Init /\ [][Next]_vars

\* the store as a crawl can have left it, the calendar as the school sets it,
\* and calls of get_applied_timetable()
InitApply ==
  /\ clock = 0
  /\ links = [p \in Urls |-> NoUrl]
  /\ data \in {None} \cup {Snapshot(0, 0, set, <<Entrypoint>>) : set \in SUBSET ApplyRows}
  /\ writer = NoOne
  /\ waiting = {}
  /\ readers = {}
  /\ callers = {}
  /\ pc = [u \in Updaters |-> "idle"]
  /\ start_url = [u \in Updaters |-> Entrypoint]
  /\ rows = [u \in Updaters |-> <<>>]
  /\ html_rows = [u \in Updaters |-> <<>>]
  /\ visited_urls = [u \in Updaters |-> <<>>]
  /\ logged = [u \in Updaters |-> <<>>]
  /\ response = [u \in Updaters |-> "none"]
  /\ now = [u \in Updaters |-> 0]
  /\ result = [u \in Updaters |-> "none"]
  /\ rpc = [r \in Readers |-> "idle"]
  /\ view = [r \in Readers |-> [rows |-> None, meta |-> None]]
  /\ PureIdle
  /\ calendar \in [ApplyDates -> {NoIteration, 1, 2}]
  /\ ApplyIdle
  /\ RenderIdle

NextApply ==
  \/ \E d \in ApplyDates : ApplyCall(d)
  \/ ApplyLock
  \/ ApplyRow
  \/ ApplyReturn

SpecApply == InitApply /\ [][NextApply]_vars

----------------------------------------------------------------------------
(* The row loop of fetch() and convert_lesson() on their own *)

\* a table body has at most this many rows
MaxRows == 3

\* the date in the heading of the page that is parsed
ParseDate == 30
\* the rows of a body: class and slot blank or not, and a row of six columns
ParseRaw ==
  {RawRow(class, slot, "CH", "", "", "cancel", "") :
     class \in {<<>>, <<"IGD21">>, <<"X">>}, slot \in {<<>>, <<1>>, <<4>>}}
  \cup {RawShort}
ParseBodies == UNION {[1..n -> ParseRaw] : n \in 0..MaxRows}
\* rows as the pages before have left it: none, or the row of a page of the
\* day before
ParseAccs ==
  {<<>>} \cup {ParseRows(DebugDate, <<raw>>, <<>>).rows : raw \in {RawCancel, RawOther}}

\* everything but the parser and convert_lesson() is at rest
Rest ==
  /\ clock = 0
  /\ links = [p \in Urls |-> NoUrl]
  /\ data = None
  /\ writer = NoOne
  /\ waiting = {}
  /\ readers = {}
  /\ callers = {}
  /\ pc = [u \in Updaters |-> "idle"]
  /\ start_url = [u \in Updaters |-> Entrypoint]
  /\ rows = [u \in Updaters |-> <<>>]
  /\ html_rows = [u \in Updaters |-> <<>>]
  /\ visited_urls = [u \in Updaters |-> <<>>]
  /\ logged = [u \in Updaters |-> <<>>]
  /\ response = [u \in Updaters |-> "none"]
  /\ now = [u \in Updaters |-> 0]
  /\ result = [u \in Updaters |-> "none"]
  /\ rpc = [r \in Readers |-> "idle"]
  /\ view = [r \in Readers |-> [rows |-> None, meta |-> None]]
  /\ calendar = [d \in ApplyDates |-> NoIteration]
  /\ ApplyIdle
  /\ RenderIdle

InitParse ==
  /\ Rest
  /\ TimeIdle
  /\ in_body \in ParseBodies
  /\ in_acc \in ParseAccs
  /\ parse_out = None
  /\ hour = 0
  /\ block = None

\* for row in table_body.select(&ROW_SELECTOR) { ... }
ParseBody ==
  /\ ~parse_out.some
  /\ parse_out' = Some(ParseRows(ParseDate, in_body, in_acc))
  /\ UNCHANGED <<clock, links, data, lockVars, callers, crawlVars, readerVars,
                 applyVars, in_body, in_acc, hour, block, timeVars,
                 renderVars>>

NextParse == ParseBody

SpecParse == InitParse /\ [][NextParse]_vars

InitConvert ==
  /\ Rest
  /\ TimeIdle
  /\ in_body = <<>>
  /\ in_acc = <<>>
  /\ parse_out = None
  /\ hour \in 0..MaxU8
  /\ block = None

\* convert_lesson(hour)
ConvertLesson ==
  /\ ~block.some
  /\ \E out \in ConvertOutcomes(hour) : block' = Some(out)
  /\ UNCHANGED <<clock, links, data, lockVars, callers, crawlVars, readerVars,
                 applyVars, in_body, in_acc, parse_out, hour, timeVars,
                 renderVars>>

NextConvert == ConvertLesson

SpecConvert == InitConvert /\ [][NextConvert]_vars

----------------------------------------------------------------------------
(* Two calls of update() at a time *)

\* no update() is running and no reader has a guard
CrawlIdle ==
  /\ writer = NoOne
  /\ waiting = {}
  /\ readers = {}
  /\ pc = [u \in Updaters |-> "idle"]
  /\ start_url = [u \in Updaters |-> Entrypoint]
  /\ rows = [u \in Updaters |-> <<>>]
  /\ html_rows = [u \in Updaters |-> <<>>]
  /\ visited_urls = [u \in Updaters |-> <<>>]
  /\ logged = [u \in Updaters |-> <<>>]
  /\ response = [u \in Updaters |-> "none"]
  /\ now = [u \in Updaters |-> 0]
  /\ result = [u \in Updaters |-> "none"]
  /\ rpc = [r \in Readers |-> "idle"]
  /\ view = [r \in Readers |-> [rows |-> None, meta |-> None]]

\* a site of one page, an empty store and two callers of update()
InitTwo ==
  /\ clock = 0
  /\ links = [p \in Urls |-> NoUrl]
  /\ data = None
  /\ callers = Updaters
  /\ CrawlIdle
  /\ PureIdle
  /\ calendar = [d \in ApplyDates |-> NoIteration]
  /\ ApplyIdle
  /\ RenderIdle

NextTwo ==
  \/ \E u \in Updaters : UpdateCall(u)
  \/ \E u \in Updaters : Fetch(u)
  \/ \E u \in Updaters : Render(u)
  \/ \E u \in Updaters : WriteGranted(u)
  \/ \E u \in Updaters : Commit(u)
  \/ \E u \in Updaters : Dispatch(u)
  \/ \E u \in Updaters : SendNotifications(u)

SpecTwo == InitTwo /\ [][NextTwo]_vars

----------------------------------------------------------------------------
(* render_images() and send_notifications() step by step *)

\* the holders of read guards besides the HTTP readers: render_images() and
\* the handler that serves the renderer's request
Renderer == "render_images"
PlanReader == "html_plan"

\* the dates of the stored rows; the loop takes them in ascending order
DatesOf(set) == {row.date : row \in set}
First(dates) == CHOOSE d \in dates : \A e \in dates : d <= e

\* WebToImageConverter::new(): the session with the renderer is opened
\* before the store is looked at
RenderImagesCall ==
  /\ ipc \in {"idle", "err", "no_images", "images"}
  /\ \E up \in BOOLEAN : ipc' = IF up THEN "view" ELSE "err"
  /\ todo' = {}
  /\ images' = 0
  /\ plan' = "idle"
  /\ UNCHANGED <<clock, links, data, lockVars, callers, pureVars, crawlVars,
                 readerVars, applyVars>>

\* render_images() that takes an empty store for an error
RenderView_FailsOnNone ==
  /\ ipc = "view"
  /\ CanRead
  /\ IF data.some
     THEN /\ readers' = readers \cup {Renderer}
          /\ todo' = DatesOf(data.v.rows)
          /\ ipc' = "loop"
     ELSE /\ ipc' = "err"
          /\ UNCHANGED <<readers, todo>>
  /\ UNCHANGED <<clock, links, data, writer, waiting, callers, pureVars,
                 crawlVars, readerVars, applyVars, images, plan>>
\* match davinci.data().await.as_ref(): the guard lives as long as the match;
\* None => Ok(None)
RenderView ==
  /\ ipc = "view"
  /\ CanRead
  /\ IF data.some
     THEN /\ readers' = readers \cup {Renderer}
          /\ todo' = DatesOf(data.v.rows)
          /\ ipc' = "loop"
     ELSE /\ ipc' = "no_images"
          /\ UNCHANGED <<readers, todo>>
  /\ UNCHANGED <<clock, links, data, writer, waiting, callers, pureVars,
                 crawlVars, readerVars, applyVars, images, plan>>

\* create_image(url): the renderer is sent to the page of the next date
RenderGoto ==
  /\ ipc = "loop"
  /\ todo # {}
  /\ ipc' = "goto"
  /\ plan' = "requested"
  /\ UNCHANGED <<clock, links, data, lockVars, callers, pureVars, crawlVars,
                 readerVars, applyVars, todo, images>>

\* the handler of /davinci/:date computes the day of the date: it panics as
\* get_applied_timetable() does, or takes a read guard of its own
PlanLock ==
  /\ plan = "requested"
  /\ LET d == First(todo)
     IN IF d \notin DOMAIN calendar \/ calendar[d] = NoIteration
           \/ Weekday(d) \notin DOMAIN base
        THEN plan' = "served" /\ UNCHANGED readers
        ELSE /\ CanRead
             /\ readers' = readers \cup {PlanReader}
             /\ plan' = "reading"
  /\ UNCHANGED <<clock, links, data, writer, waiting, callers, pureVars,
                 crawlVars, readerVars, applyVars, ipc, todo, images>>

\* the handler has read the rows: the guard is dropped and the page sent
PlanServed ==
  /\ plan = "reading"
  /\ readers' = readers \ {PlanReader}
  /\ plan' = "served"
  /\ UNCHANGED <<clock, links, data, writer, waiting, callers, pureVars,
                 crawlVars, readerVars, applyVars, ipc, todo, images>>

\* create_image(url).await?: the screenshot is pushed, or the error returned
\* and the guard dropped
RenderImage ==
  /\ ipc = "goto"
  /\ plan = "served"
  /\ plan' = "idle"
  /\ \E ok \in BOOLEAN :
       IF ok
       THEN /\ images' = images + 1
            /\ todo' = todo \ {First(todo)}
            /\ ipc' = "loop"
            /\ UNCHANGED readers
       ELSE /\ ipc' = "err"
            /\ todo' = {}
            /\ images' = 0
            /\ readers' = readers \ {Renderer}
  /\ UNCHANGED <<clock, links, data, writer, waiting, callers, pureVars,
                 crawlVars, readerVars, applyVars>>

\* Ok(Some(images)): the guard is dropped
RenderReturn ==
  /\ ipc = "loop"
  /\ todo = {}
  /\ ipc' = "images"
  /\ readers' = readers \ {Renderer}
  /\ UNCHANGED <<clock, links, data, writer, waiting, callers, pureVars,
                 crawlVars, readerVars, applyVars, todo, images, plan>>

\* the day on which the task runs
Today == DebugDate

\* send_notifications(): davinci.get_applied_timetable(now.date())
NotifyTimetable(u) ==
  /\ pc[u] = "notify"
  /\ apc = "idle"
  /\ ipc = "idle"
  /\ ApplyCall(NotifyDate(Today, NowUtc(clock).hour))

\* get_applied_timetable() has panicked, and the task with it
NotifyPanic(u) ==
  /\ pc[u] = "notify"
  /\ apc = "panicked"
  /\ pc' = [pc EXCEPT ![u] = "panicked"]
  /\ UNCHANGED <<clock, links, data, lockVars, callers, pureVars, start_url,
                 rows, html_rows, visited_urls, logged, response, now, result,
                 readerVars, applyVars, renderVars>>

\* send_notifications(): render_images(...)
NotifyRender(u) ==
  /\ pc[u] = "notify"
  /\ apc = "returned"
  /\ ipc = "idle"
  /\ RenderImagesCall

\* render_images() is back: its error is logged and taken as no images, the
\* messages are sent and send_notifications() returns
SendMessages(u) ==
  /\ pc[u] = "notify"
  /\ ipc \in {"err", "no_images", "images"}
  /\ pc' = [pc EXCEPT ![u] = "sleep"]
  /\ apc' = "idle"
  /\ ipc' = "idle"
  /\ images' = 0
  /\ UNCHANGED <<clock, links, data, lockVars, callers, pureVars, start_url,
                 rows, html_rows, visited_urls, logged, response, now, result,
                 readerVars, calendar, base, date, day, relevant_rows,
                 pending, calls, outcomes, todo, plan>>

\* the calendars of the task's run: every date has an iteration, or the
\* Monday has none
RenderCalendars ==
  {[d \in ApplyDates |-> 1],
   [d \in ApplyDates |-> IF d = ParseDate THEN NoIteration ELSE 1]}

\* a program of two periodic tasks
InitRender_TwoTasks ==
  /\ clock \in 0..MaxTime
  /\ links = [p \in Urls |-> NoUrl]
  /\ data = None
  /\ callers = Updaters
  /\ CrawlIdle
  /\ PureIdle
  /\ calendar \in RenderCalendars
  /\ ApplyIdle
  /\ RenderIdle
\* main(): one periodic task is spawned
InitRender ==
  /\ clock \in 0..MaxTime
  /\ links = [p \in Urls |-> NoUrl]
  /\ data = None
  /\ callers = {"u1"}
  /\ CrawlIdle
  /\ PureIdle
  /\ calendar \in RenderCalendars
  /\ ApplyIdle
  /\ RenderIdle

NextRender ==
  \/ \E u \in Updaters : UpdateCall(u)
  \/ \E u \in Updaters : Fetch(u)
  \/ \E u \in Updaters : Render(u)
  \/ \E u \in Updaters : WriteGranted(u)
  \/ \E u \in Updaters : Commit(u)
  \/ \E u \in Updaters : Dispatch(u)
  \/ \E u \in Updaters : NotifyTimetable(u)
  \/ \E u \in Updaters : NotifyPanic(u)
  \/ \E u \in Updaters : NotifyRender(u)
  \/ \E u \in Updaters : SendMessages(u)
  \/ ApplyLock
  \/ ApplyRow
  \/ ApplyReturn
  \/ RenderView
  \/ RenderGoto
  \/ PlanLock
  \/ PlanServed
  \/ RenderImage
  \/ RenderReturn
  \/ \E r \in Readers : ReadLock(r)
  \/ \E r \in Readers : ReadRows(r)
  \/ \E r \in Readers : ReadMeta(r)
  \/ \E r \in Readers : ReadUnlock(r)

SpecRender == InitRender /\ [][NextRender]_vars

\* the runtime runs every task that can take a step, and the lock grants
\* every request that it can grant
FairRender ==
  /\ SpecRender
  /\ \A u \in Updaters :
       /\ WF_vars(UpdateCall(u))
       /\ WF_vars(Fetch(u))
       /\ WF_vars(Render(u))
       /\ WF_vars(WriteGranted(u))
       /\ WF_vars(Commit(u))
       /\ WF_vars(Dispatch(u))
       /\ WF_vars(NotifyTimetable(u))
       /\ WF_vars(NotifyPanic(u))
       /\ WF_vars(NotifyRender(u))
       /\ WF_vars(SendMessages(u))
  /\ WF_vars(ApplyLock)
  /\ WF_vars(ApplyRow)
  /\ WF_vars(ApplyReturn)
  /\ WF_vars(RenderView)
  /\ WF_vars(RenderGoto)
  /\ WF_vars(PlanLock)
  /\ WF_vars(PlanServed)
  /\ WF_vars(RenderImage)
  /\ WF_vars(RenderReturn)
  /\ \A r \in Readers :
       /\ WF_vars(ReadLock(r))
       /\ WF_vars(ReadRows(r))
       /\ WF_vars(ReadMeta(r))
       /\ WF_vars(ReadUnlock(r))

\* the stores of the calls below: none, or a snapshot of at most one row
CallStores ==
  {None} \cup {Snapshot(0, 0, set, <<Entrypoint>>) :
                 set \in {x \in SUBSET ApplyRows : Cardinality(x) <= 1}}

\* calls of get_applied_timetable() and of render_images() on a store that
\* is empty or not
InitCalls ==
  /\ clock = 0
  /\ links = [p \in Urls |-> NoUrl]
  /\ data \in CallStores
  /\ callers = {}
  /\ CrawlIdle
  /\ PureIdle
  /\ calendar \in [ApplyDates -> {NoIteration, 1}]
  /\ ApplyIdle
  /\ RenderIdle

NextCalls ==
  \/ \E d \in ApplyDates : ApplyCall(d)
  \/ ApplyLock
  \/ ApplyRow
  \/ ApplyReturn
  \/ RenderImagesCall
  \/ RenderView
  \/ RenderGoto
  \/ PlanLock
  \/ PlanServed
  \/ RenderImage
  \/ RenderReturn

SpecCalls == InitCalls /\ [][NextCalls]_vars

----------------------------------------------------------------------------
(* await_next_execution() and the date of send_notifications() on their own *)

\* the readings of the clock: a week from Sunday 22.01.2023 on
Week == 22..28
Hours == 0..23
Sixty == 0..59

InitAwait ==
  /\ Rest
  /\ in_body = <<>>
  /\ in_acc = <<>>
  /\ parse_out = None
  /\ hour = 0
  /\ block = None
  /\ utc \in [day : {22}, hour : {0}, minute : Sixty, second : Sixty]
  /\ sleep = None
  /\ target = None

\* await_next_execution()
AwaitNextExecution ==
  /\ ~sleep.some
  /\ \E out \in AwaitOutcomes(utc.minute, utc.second) : sleep' = Some(out)
  /\ UNCHANGED <<clock, links, data, lockVars, callers, crawlVars, readerVars,
                 applyVars, in_body, in_acc, parse_out, hour, block, utc,
                 target, renderVars>>

NextAwait == AwaitNextExecution

SpecAwait == InitAwait /\ [][NextAwait]_vars

InitNotifyDate ==
  /\ Rest
  /\ in_body = <<>>
  /\ in_acc = <<>>
  /\ parse_out = None
  /\ hour = 0
  /\ block = None
  /\ utc \in [day : Week, hour : Hours, minute : {0}, second : {0}]
  /\ sleep = None
  /\ target = None

\* send_notifications() up to the call of get_applied_timetable()
NotifyDateStep ==
  /\ ~target.some
  /\ target' = Some(NotifyDate(utc.day, utc.hour))
  /\ UNCHANGED <<clock, links, data, lockVars, callers, crawlVars, readerVars,
                 applyVars, in_body, in_acc, parse_out, hour, block, utc,
                 sleep, renderVars>>

NextNotifyDate == NotifyDateStep

SpecNotifyDate == InitNotifyDate /\ [][NextNotifyDate]_vars


----------------------------------------------------------------------------
(* Properties of update() and of the store *)

\* the crawl loop of u has ended normally: every page was fetched and parsed
CrawlComplete(u) == pc[u] \in {"render", "waiting", "commit"}
\* the set that update() builds from the rows of the crawl
Hash(u) == ToSet(rows[u])
Differs(u) == ~data.some \/ data.v.rows # Hash(u)
LoggedTimes(u) == {logged[u][i].last_modified : i \in 1..Len(logged[u])}

\* C1: after a crawl whose pages were all fetched and parsed, with no snapshot
\* stored or a row set different from the stored one, update() does not die
\* and, when it returns, returns true with the stored rows equal to the
\* deduplicated rows of the crawl.
C1_Orig ==
  [][\A u \in Updaters :
       (CrawlComplete(u) /\ Differs(u))
         => /\ pc'[u] # "panicked"
            /\ pc'[u] = "returned"
                 => /\ result'[u] = "true"
                    /\ data'.some
                    /\ data'.v.rows = Hash(u)]_vars

\* C2: after a crawl whose row set equals the stored rows, update() does not
\* die and, when it returns, returns false and has changed last_checked only.
C2_Orig ==
  [][\A u \in Updaters :
       (CrawlComplete(u) /\ ~Differs(u))
         => /\ pc'[u] # "panicked"
            /\ pc'[u] = "returned"
                 => /\ result'[u] = "false"
                    /\ data'.some
                    /\ data'.v = [data.v EXCEPT
                                    !.last_checked = data'.v.last_checked]]_vars

\* C3: while update() crawls, the store is not written; a faulty response
\* (bad status, no Last-Modified, no date heading, no table body) on any page
\* ends the call with an error and the store as it was.
C3_FailedFetchKeepsSnapshot ==
  [][\A u \in callers :
       /\ pc[u] = "crawl" => data' = data
       /\ pc[u] = "crawl" /\ response'[u] \in Faults
            => pc'[u] = "returned" /\ result'[u] = "err" /\ data' = data]_vars

\* a fetch failed on the second page, after rows were parsed from the first,
\* and the stored snapshot holds other rows
C3_Witness ==
  \E u \in callers :
    /\ pc[u] = "returned" /\ result[u] = "err" /\ response[u] = "no_tbody"
    /\ Len(visited_urls[u]) = 2 /\ rows[u] # <<>>
    /\ data.some /\ data.v.rows # Hash(u)

ViewOf(d) ==
  [rows |-> IF d.some THEN Some(d.v.rows) ELSE None,
   meta |-> IF d.some
            THEN Some(<<d.v.last_checked, d.v.last_modified, d.v.visited_urls>>)
            ELSE None]

C8_NoFetchUnderWriteLock ==
  \A u \in callers :
    /\ pc[u] \in {"crawl", "render"} => writer # u /\ u \notin waiting
    /\ writer = u => pc[u] = "commit"
    /\ (pc[u] = "crawl" /\ callers = {u}) => CanRead

\* a reader took its guard while the crawl was between two page fetches
C8_Witness ==
  \E r \in Readers, u \in callers :
    /\ pc[u] = "crawl" /\ Len(visited_urls[u]) = 1
    /\ rpc[r] = "locked" /\ r \in readers

\* the number of pages on the way from the entrypoint to the first page with
\* no reference or a reference to itself; 0 if the way returns to an earlier
\* page
RECURSIVE ChainLen(_, _, _)
ChainLen(l, url, seen) ==
  IF l[url] = NoUrl \/ l[url] = url THEN Cardinality(seen) + 1
  ELSE IF l[url] \in seen THEN 0
  ELSE ChainLen(l, l[url], seen \cup {url})

\* C9 as stated: over a finite set of pages with at most one reference each the
\* loop stops, that is, it fetches no address twice (a second fetch of an
\* address repeats what followed the first), so never more than there are pages.
C9_Orig == \A u \in Updaters : Len(visited_urls[u]) <= Cardinality(Urls)

\* C9 amended: when the references from the entrypoint lead to a page with no
\* reference or a reference to itself, the loop fetches the pages on that way
\* once each and stops.
C9_CrawlStopsAtChainEnd ==
  \A u \in callers :
    LET n == ChainLen(links, Entrypoint, {})
    IN n > 0 => /\ Len(visited_urls[u]) <= n
                /\ pc[u] = "crawl" => Len(visited_urls[u]) < n
                /\ CrawlComplete(u) => Len(visited_urls[u]) = n

\* the crawl followed the reference of the entrypoint and stopped at the
\* second page, which refers to itself
C9_Witness ==
  \E u \in callers :
    /\ links[Entrypoint] = 2 /\ links[2] = 2
    /\ pc[u] = "render" /\ visited_urls[u] = <<Entrypoint, 2>>

\* C10: after an update() that replaced the snapshot, last_modified is the
\* greatest Last-Modified of the pages of the crawl.
C10_Orig ==
  \A u \in Updaters :
    (pc[u] = "returned" /\ result[u] = "true")
      => data.v.last_modified = SetMax(LoggedTimes(u))


----------------------------------------------------------------------------
(* Properties of get_applied_timetable() *)

\* C4: Change::apply is called for every cancellation before it is called for
\* a change of another kind.
C4_Orig ==
  \A i, j \in 1..Len(calls) :
    (i < j /\ calls[j].row.change.kind = "cancel")
      => calls[i].row.change.kind = "cancel"

\* C5: for one snapshot and one date every call returns the same lessons and
\* the same set of unknown rows.
C5_Orig ==
  \A d \in ApplyDates :
    \A a, b \in outcomes[d] :
      a.day = b.day /\ ToSet(a.relevant_rows) = ToSet(b.relevant_rows)

StoredRows == IF data.some THEN data.v.rows ELSE {}
\* the stored rows of the date asked for that name the tracked class
Considered ==
  {row \in StoredRows :
     /\ row.date = date
     /\ \E i \in 1..Len(row.class) : row.class[i] \in {"IGD21", "IGD 21"}}
Called == {calls[i].row : i \in 1..Len(calls)}
Unapplied == {calls[i].row : i \in {k \in 1..Len(calls) : ~calls[k].applied}}

\* C6: Change::apply is called once for each stored row of the date and the
\* tracked class and for no other row; the rows it answered false for are the
\* unknown rows, once each; the call ends by returning, never by failing, once
\* it has the day's lessons.
C6_ConsideredRowsPartition ==
  /\ apc \in {"loop", "returned"}
       => /\ Called = Considered \ pending
          /\ Len(calls) = Cardinality(Called)
          /\ ToSet(relevant_rows) = Unapplied
          /\ Len(relevant_rows) = Cardinality(Unapplied)
  /\ apc = "returned" => Called = Considered
  /\ apc = "panicked" => calls = <<>>

\* a call has returned with a row applied and a row unknown, having passed
\* over a row of another class and a row of another date
C6_Witness ==
  /\ apc = "returned"
  /\ \E i, j \in 1..Len(calls) : calls[i].applied /\ ~calls[j].applied
  /\ relevant_rows # <<>>
  /\ \E row \in StoredRows : row.date = date /\ row \notin Called
  /\ \E row \in StoredRows : row.date # date


----------------------------------------------------------------------------
(* Properties of the parser *)

\* C11: a page with a row that has not seven columns, or with a first row
\* that has a blank class or slot column, ends update() with an error for its
\* caller, the store as it was.
C11_Orig ==
  [][\A u \in Updaters :
       pc[u] = "crawl" /\ response'[u] \in Structural
         => pc'[u] = "returned" /\ result'[u] = "err" /\ data' = data]_vars


----------------------------------------------------------------------------
(* Properties of the day computation, continued *)

\* C12: a call of get_applied_timetable() ends without a day only if the
\* calendar has no iteration for its date.
C12_Orig == apc = "panicked" => calendar[date] = NoIteration

\* C13: no step of get_applied_timetable(), ending well or not, changes the
\* stored snapshot or the base timetable, which keeps its initial content;
\* the changes go to the day of the call.
C13_ReadOnly ==
  [][data' = data /\ base' = base /\ base' = IGD21]_vars
\* days have been computed for two dates, and the last call has come back
\* with a day that a change has made unlike the base's
C13_Witness ==
  /\ apc = "returned"
  /\ \E i \in 1..Len(calls) : calls[i].applied
  /\ day # FilterDay(IGD21[Weekday(date)], calendar[date])
  /\ \A d \in {27, 30} : outcomes[d] # {}

\* C20: the day, before a change is applied to it, is made of the lessons of
\* the date's weekday that have no iteration or the date's iteration, each
\* once and in the base timetable's order; no lesson of another iteration is
\* in the day at any time.
Kept(lessons, iteration) ==
  {i \in 1..Len(lessons) :
     ~lessons[i].iteration.some \/ lessons[i].iteration.v = iteration}
Nth(set, k) == CHOOSE i \in set : Cardinality({j \in set : j <= i}) = k
C20_DayIsIterationSubset ==
  /\ apc = "lock" =>
       LET lessons == IGD21[Weekday(date)]
           kept == Kept(lessons, calendar[date])
       IN /\ Len(day) = Cardinality(kept)
          /\ \A k \in 1..Len(day) : day[k] = lessons[Nth(kept, k)]
  /\ \A k \in 1..Len(day) :
       day[k].iteration.some => day[k].iteration.v = calendar[date]
\* a Monday of iteration 2: the lessons of iteration 1 are left out
C20_Witness ==
  /\ apc = "lock"
  /\ Weekday(date) = "Monday"
  /\ calendar[date] = 2
  /\ Len(day) < Len(IGD21.Monday)
  /\ \E i \in 1..Len(IGD21.Monday) :
       IGD21.Monday[i].iteration = Some(1)


----------------------------------------------------------------------------
(* Properties of the row loop and of convert_lesson() *)

\* the hour halved and rounded up
HalfUp(h) == (h + 1) \div 2
\* the rows that the body has added to rows
Added(i) == parse_out.v.rows[Len(in_acc) + i]
\* the last row of the body, up to row i, whose class (slot) is not blank
Supplier(i, blank(_)) ==
  LET given == {j \in 1..i : ~blank(in_body[j])}
  IN IF given = {} THEN 0 ELSE CHOOSE j \in given : \A k \in given : k <= j
BlankClass(raw) == raw.class = <<>>
BlankSlot(raw) == raw.slot = <<>>

\* C14: in a page, a row with a blank class column has the class list of the
\* row before it, a row with a blank slot column the block of the row before
\* it; a run of blank rows has the value of the last row of the page that
\* gave one; a column that is not blank is taken as it is.
C14_BlankInheritsPrevious ==
  parse_out.some =>
    \A i \in 2..(Len(parse_out.v.rows) - Len(in_acc)) :
      LET raw == in_body[i]
          c == Supplier(i, BlankClass)
          s == Supplier(i, BlankSlot)
      IN /\ Added(i).class =
              IF BlankClass(raw) THEN Added(i - 1).class ELSE raw.class
         /\ Added(i).change.lesson =
              IF BlankSlot(raw) THEN Added(i - 1).change.lesson
              ELSE HalfUp(raw.slot[1])
         /\ c > 0 => Added(i).class = in_body[c].class
         /\ s > 0 => Added(i).change.lesson = HalfUp(in_body[s].slot[1])
\* three rows on an empty rows vector: the third one, all blank, has its
\* class from the second and its block from the first
C14_Witness ==
  /\ parse_out.some
  /\ parse_out.v.kind = "ok"
  /\ in_acc = <<>>
  /\ Len(in_body) = 3
  /\ BlankClass(in_body[3]) /\ BlankSlot(in_body[3])
  /\ ~BlankClass(in_body[2]) /\ BlankSlot(in_body[2])
  /\ in_body[1].class # in_body[2].class
  /\ Added(3).class = in_body[2].class
  /\ Added(3).change.lesson = HalfUp(in_body[1].slot[1])

\* a first row of seven columns with a blank class or slot column
FirstRowBlank ==
  /\ in_body # <<>>
  /\ in_body[1].cols = 7
  /\ BlankClass(in_body[1]) \/ BlankSlot(in_body[1])

\* C15: a page whose first row has a blank class or slot column ends the
\* crawl with a fatal parse error, whatever page of the crawl it is.
C15_Orig == parse_out.some /\ FirstRowBlank => parse_out.v.kind = "panic"

\* C16: convert_lesson gives (hour + hour % 2) / 2, the hour halved and
\* rounded up, for every u8.
C16_Orig ==
  block.some =>
    /\ ~block.v.panic
    /\ block.v.v = (hour + (hour % 2)) \div 2
    /\ block.v.v = HalfUp(hour)


----------------------------------------------------------------------------
(* Properties of the periodic task *)

\* C18: send_notifications() is called in a run of iteration() only if the
\* update() of that run has returned true.
C18_Orig == \A u \in Updaters : pc[u] = "notify" => result[u] = "true"

\* C18 as amended: send_notifications() is called only if update() has
\* returned true, or has returned false and the time read after it is
\* between 15:00 and 15:14.
C18_NotifyOnChangeOrAtFifteen ==
  [][\A u \in Updaters :
       pc'[u] = "notify" /\ pc[u] # "notify"
         => \/ result[u] = "true"
            \/ /\ result[u] = "false"
               /\ NowUtc(clock).hour = 15
               /\ NowUtc(clock).minute <= 14]_vars
\* the notification of 15 o'clock: nothing has changed
C18_Witness ==
  \E u \in Updaters :
    /\ pc[u] = "notify"
    /\ result[u] = "false"
    /\ data.some /\ data.v.last_modified < data.v.last_checked


----------------------------------------------------------------------------
(* Properties of the crawl, continued *)

\* C17: whether update() returns false depends on the set of the crawled
\* rows and the stored set only, not on the order of the rows nor on how
\* often a row has been found; what is stored is that set.
C17_DecisionBySetOnly ==
  [][\A u \in Updaters :
       pc[u] = "commit" /\ pc'[u] = "returned"
         => LET set == {rows[u][i] : i \in 1..Len(rows[u])}
            IN /\ result'[u] \in {"true", "false"}
               /\ result'[u] = "false" <=> (data.some /\ data.v.rows = set)
               /\ data'.some
               /\ data'.v.rows = set
               /\ Cardinality(data'.v.rows) <= Len(rows[u])]_vars
\* a crawl that has found a row twice is taken for the stored set of one
\* row, and the store keeps the time of its last change
C17_Witness ==
  \E u \in Updaters :
    /\ pc[u] = "returned"
    /\ result[u] = "false"
    /\ data.some
    /\ Len(rows[u]) > Cardinality(data.v.rows)
    /\ data.v.last_modified < data.v.last_checked

\* the sequence s begins with the sequence t
StartsWith(s, t) == Len(t) <= Len(s) /\ \A i \in 1..Len(t) : s[i] = t[i]
\* the addresses are the entrypoint and then what each page pointed to
InFetchOrder(urls) ==
  /\ urls # <<>> => urls[1] = Entrypoint
  /\ \A i \in 1..(Len(urls) - 1) : urls[i + 1] = links[urls[i]]

\* C19: the pages are fetched one after the other: each turn of the loop
\* pushes the address it fetches, once, and adds the rows of that page at
\* the end of rows; the addresses are in the order of the fetches, from the
\* entrypoint on, and are stored so.
C19_SequentialCrawl ==
  [][\A u \in Updaters :
       /\ InFetchOrder(visited_urls[u])
       /\ data.some => InFetchOrder(data.v.visited_urls)
       /\ pc[u] = "crawl" /\ <<pc[u], rows[u], response[u]>>
                               # <<pc'[u], rows'[u], response'[u]>>
            => /\ visited_urls'[u] = Append(visited_urls[u], start_url[u])
               /\ StartsWith(rows'[u], rows[u])
               /\ \A i \in (Len(rows[u]) + 1)..Len(rows'[u]) :
                    rows'[u][i].date = Last(html_rows'[u])
               /\ pc'[u] = "crawl" => start_url'[u] = links[start_url[u]]
       /\ pc[u] = "commit" /\ result'[u] = "true"
            => data'.v.visited_urls = visited_urls[u]]_vars
\* two pages of different dates have been crawled and stored
C19_Witness ==
  \E u \in Updaters :
    /\ pc[u] = "returned"
    /\ result[u] = "true"
    /\ Len(visited_urls[u]) = 2
    /\ data.v.visited_urls = visited_urls[u]
    /\ Len(rows[u]) >= 2
    /\ rows[u][1].date # rows[u][Len(rows[u])].date

----------------------------------------------------------------------------
(* Properties of the periodic task, continued *)

\* C21: the periodic task is never stopped by a crawl: whatever update() has
\* met, the task is alive and comes to its next update().
C21_Orig == \A u \in callers : pc[u] # "panicked"

\* C24: for every minute and second, await_next_execution() sleeps
\* (15 - minute % 15) * 60 - second seconds, which is from 1 to 900, ends on
\* the next full quarter of the hour, and is computed without underflow.
C24_SleepsToNextQuarter ==
  sleep.some =>
    LET secs == sleep.v.secs
        into_hour == utc.minute * 60 + utc.second
    IN /\ ~sleep.v.underflow
       /\ secs = (15 - (utc.minute % 15)) * 60 - utc.second
       /\ 1 <= secs /\ secs <= 900
       /\ (into_hour + secs) % 900 = 0
       /\ (into_hour + secs) \div 900 = (into_hour \div 900) + 1
\* the shortest sleep: one second before the hour is full
C24_Witness ==
  /\ sleep.some
  /\ utc.minute = 59 /\ utc.second = 59
  /\ sleep.v.secs = 1

\* C25: the date that send_notifications() hands to get_applied_timetable()
\* is today, or tomorrow from 15 o'clock on, moved over a Saturday and Sunday
\* to the Monday; it is a day of Monday to Friday, which IGD21 has.
C25_NotifyDateIsWeekday ==
  target.some =>
    LET next == IF utc.hour >= 15 THEN utc.day + 1 ELSE utc.day
    IN /\ Weekday(target.v) \in DOMAIN IGD21
       /\ Weekday(target.v) \in DOMAIN base
       /\ target.v >= next
       /\ \A d \in next..(target.v - 1) : Weekday(d) \in {"Saturday", "Sunday"}
\* Friday afternoon: the timetable of Monday
C25_Witness ==
  /\ target.some
  /\ Weekday(utc.day) = "Friday"
  /\ utc.hour = 15
  /\ Weekday(target.v) = "Monday"
  /\ target.v = utc.day + 3

----------------------------------------------------------------------------
(* Properties of concurrent calls *)

\* the calls that are between their write lock and their return
InCommit == {u \in Updaters : pc[u] = "commit"}

\* C22: of two calls of update() at most one is between its write lock and
\* its return; there it compares its rows with the stored rows and replaces
\* them: it returns false only if its set is the stored one, the store has
\* its set when it returns, and nothing else changes the store, so that the
\* store has the set of the call that had the lock last.
C22_CompareAndReplaceUnderLock ==
  /\ [](Cardinality(InCommit) <= 1 /\ \A u \in InCommit : writer = u)
  /\ [][/\ \A u \in Updaters :
            pc[u] = "commit" /\ pc'[u] = "returned"
              => /\ result'[u] = "false"
                      => data.some /\ data.v.rows = Hash(u)
                 /\ data'.some /\ data'.v.rows = Hash(u)
        /\ data' # data
             => \E u \in InCommit : writer = u /\ pc'[u] = "returned"]_vars
\* both calls have returned; the store has the rows of u2, which are not
\* those of u1
C22_Witness ==
  /\ \A u \in Updaters : pc[u] = "returned" /\ result[u] = "true"
  /\ Hash("u1") # Hash("u2")
  /\ data.v.rows = Hash("u2")

\* the store is in use by render_images() or by the page load it waits for
Rendering == Renderer \in readers

\* C23: while render_images() holds its read view no update() holds or waits
\* for the write lock, so that the read of the page load it waits for can be
\* granted; and every write lock and every read view that is asked for is
\* granted: to update(), to get_applied_timetable(), to render_images() and
\* to the handler of the page.
C23_NoDeadlockOnStore ==
  /\ [](Rendering => writer = NoOne /\ waiting = {})
  /\ \A u \in Updaters : pc[u] = "waiting" ~> pc[u] = "commit"
  /\ apc = "lock" ~> apc = "loop"
  /\ ipc = "view" ~> ipc \in {"loop", "no_images"}
  /\ plan = "requested" ~> plan = "served"
\* render_images() holds its view and waits for the page, whose handler
\* reads the store at the same time as an HTTP reader
C23_Witness ==
  /\ Rendering
  /\ ipc = "goto"
  /\ plan = "reading"
  /\ rpc["r1"] = "locked"

----------------------------------------------------------------------------
(* Properties of the empty store *)

\* what get_applied_timetable(d) gives when no row is applied
Untouched(d) ==
  [day |-> FilterDay(base[Weekday(d)], calendar[d]), relevant_rows |-> <<>>]

====
